---------------------------- MODULE Spec2Model ----------------------------
(***************************************************************************)
(* WattWise (src/wattwise.py): the dispatch run of the battery optimiser.  *)
(*                                                                         *)
(* Representation.  Times are minutes since 00:00 of day 0.  Powers are    *)
(* integers (one unit of power).  Energies (state of charge, capacity,     *)
(* buffer limit) are fixed-point integers with SocScale sub-units per      *)
(* energy unit, SocScale = EffDen * 60 / STEP_MINUTES, so that the SoC     *)
(* recursion  SoC' = SoC + (Chs+Chg)*eff*delta - Dch*delta  is exact:      *)
(*      SoC'*SocScale = SoC*SocScale + (Chs+Chg)*EffNum - Dch*EffDen.      *)
(* Prices: a table entry holds "total" in currency units as a fixed-point   *)
(* integer with PriceScale sub-units; the code's "* 100" yields ct.         *)
(***************************************************************************)
EXTENDS Integers, Sequences, FiniteSets, TLC

(***************************************************************************)
(* Bounds of the model (not program constants).                            *)
(***************************************************************************)
MaxPower == 4              \* largest value of a free power variable (Surplus)
MaxUpdates == 1            \* sensor updates the environment makes in a behaviour
MaxSession == 4            \* no further run once the published session exceeds it

\* the wall-clock instants at which callbacks are observed: day 1 at 23:02
\* (the app starts), 23:17 and 23:30, day 2 at 00:00
Instants == {2822, 2837, 2850, 2880}

(***************************************************************************)
(* Configuration (app arguments read in initialize) and literals.          *)
(***************************************************************************)
STEP_MINUTES == 30
TIME_HORIZON == 1
EffNum == 1
EffDen == 2
CHARGE_RATE_MAX == 2
DISCHARGE_RATE_MAX == 2
FEED_IN_TARIFF == 7
NowStepFallback == 15
SolarPeriodMinutes == 30
HISTORY_DAYS_FALLBACK == 1

\* Python's None and a present value v: an absent reading is <<>>, a present
\* one is <<v>>
None == <<>>
Some(v) == <<v>>
Val(o) == o[1]

MinutesPerDay == 24 * 60
DELTA_DEN == 60 \div STEP_MINUTES            \* DELTA_HOURS = 1 / DELTA_DEN
SocScale == EffDen * DELTA_DEN
ConfiguredT == (TIME_HORIZON * 60) \div STEP_MINUTES

Min2(a, b) == IF a <= b THEN a ELSE b
Max2(a, b) == IF a >= b THEN a ELSE b
SetMin(S) == CHOOSE x \in S : \A y \in S : x <= y
SetMax(S) == CHOOSE x \in S : \A y \in S : x >= y

\* f as an explicit table of its values: a list, dict or file content the
\* program has built holds values, it is not recomputed when it is read
Explicit(f) == f @@ <<>>

RECURSIVE SumSeq(_)
SumSeq(s) == IF s = <<>> THEN 0 ELSE Head(s) + SumSeq(Tail(s))

(***************************************************************************)
(* datetime helpers                                                        *)
(***************************************************************************)
HourOf(ts) == (ts % MinutesPerDay) \div 60
MinuteOf(ts) == ts % 60
DateOf(ts) == ts \div MinutesPerDay

\* get_now_time(): the class attribute WattWise.STEP_MINUTES is never set
\* (initialize sets the instance attribute), so getattr falls back to 15.
GetNowTime(wall) == (wall \div 60) * 60 + (MinuteOf(wall) \div NowStepFallback) * NowStepFallback

\* slot-of-day index: hour * (60 // STEP_MINUTES) + minute // STEP_MINUTES
SlotOf(ts) == HourOf(ts) * (60 \div STEP_MINUTES) + (MinuteOf(ts) \div STEP_MINUTES)
SlotsPerDay == (24 * 60) \div STEP_MINUTES


(***************************************************************************)
(* State.  Environment: the wall clock and the Home Assistant sensors the  *)
(* app reads.  Program: the fields of the WattWise object (self), the      *)
(* entities it writes with set_state (hass), the files it owns (files).    *)
(* updates counts the sensor updates so far.  run: what the last call of   *)
(* optimize did (bookkeeping only).  pc, startupDue: the host worker       *)
(* threads executing the app's callbacks and the pending start-up timer.   *)
(* call: the last helper applied on its own, with its arguments and result *)
(* (used by SpecCalls only).                                               *)
(***************************************************************************)
VARIABLES clock, solarSensor, priceSensor, socSensor, capSensor, bufSensor,
          updates, self, hass, files, run, pc, startupDue, call

envVars == <<clock, solarSensor, priceSensor, socSensor, capSensor, bufSensor, updates>>
vars == <<clock, solarSensor, priceSensor, socSensor, capSensor, bufSensor,
          updates, self, hass, files, run, pc, startupDue, call>>

(***************************************************************************)
(* Inputs: what the external sources can hold.                             *)
(***************************************************************************)
SolarShapes == {"absent", "ramp", "bright"}
PriceShapes == {"absent", "flat", "swing", "late"}

SolarInputs ==
    { [today |-> "absent", tomorrow |-> "absent", day_after |-> "absent"],
      [today |-> "ramp",   tomorrow |-> "absent", day_after |-> "absent"],
      [today |-> "ramp",   tomorrow |-> "ramp",   day_after |-> "absent"],
      [today |-> "bright", tomorrow |-> "bright", day_after |-> "absent"] }

PriceInputs ==
    { [today |-> "absent", tomorrow |-> "absent", day_after |-> "absent"],
      [today |-> "flat",   tomorrow |-> "absent", day_after |-> "absent"],
      [today |-> "late",   tomorrow |-> "absent", day_after |-> "absent"],
      [today |-> "swing",  tomorrow |-> "swing",  day_after |-> "flat"] }

SocInputs == {None, Some(25), Some(100)}   \* percent
CapInputs == {None, Some(8)}           \* energy, fixed-point (SocScale per unit)
BufInputs == {None, Some(4)}           \* energy, fixed-point

\* pv_estimate of the i-th half-hour point of a day (i from 0)
SolarValue(shape, i) ==
    CASE shape = "ramp"   -> IF i % 2 = 0 THEN 2 ELSE 0
      [] shape = "bright" -> 4

\* attribute detailedForecast of a solar sensor: one point per half hour of
\* the day the sensor covers
SolarAttribute(shape, day) ==
    IF shape = "absent" THEN <<>>
    ELSE Explicit([i \in 1..(MinutesPerDay \div SolarPeriodMinutes) |->
            [period_start |-> day * MinutesPerDay + (i - 1) * SolarPeriodMinutes,
             pv_estimate  |-> Some(SolarValue(shape, i - 1))]])

\* "total" of the i-th entry of a daily price table (i from 0), in currency
\* units as a fixed-point number with PriceScale sub-units
PriceScale == 100

PriceValue(shape, i) ==
    CASE shape = "flat"  -> 30
      [] shape = "swing" -> IF i % 2 = 0 THEN 20 ELSE 90
      [] shape = "late"  -> IF i >= SlotsPerDay - 2 THEN 10 ELSE 30   \* cheap from 23:00

PriceLength(shape) == IF shape = "absent" THEN 0 ELSE SlotsPerDay

\* attribute today / tomorrow / day_after_tomorrow of the price sensor
PriceAttribute(shape) ==
    Explicit([i \in 1..PriceLength(shape) |-> [total |-> PriceValue(shape, i - 1)]])

(***************************************************************************)
(* The recorder of the consumption sensor (external): the sensor changes   *)
(* at fixed times of each day, always to the same value at the same time   *)
(* of day.  get_history(start, end) yields the changes in (start, end].    *)
(* A sample's last_changed is a datetime <<"dt", minutes>> as the recorder  *)
(* hands it out, or its ISO text <<"iso", day, hour, minute>> as the        *)
(* history file holds it.                                                  *)
(***************************************************************************)
\* datetime.isoformat()
IsoFormat(dt) == <<"iso", DateOf(dt[2]), HourOf(dt[2]), MinuteOf(dt[2])>>

\* datetime.datetime.fromisoformat(text), as minutes
FromIsoFormat(text) == text[2] * MinutesPerDay + text[3] * 60 + text[4]

\* the instant of a sample: "if isinstance(timestamp_str, str): fromisoformat"
TimestampOf(sample) ==
    IF sample.last_changed[1] = "iso" THEN FromIsoFormat(sample.last_changed)
    ELSE sample.last_changed[2]

\* <<minute of day, value>>: changes at 00:10, 22:40, 23:10 and 23:40
DailyChanges == { <<10, 1>>, <<1360, 1>>, <<1390, 1>>, <<1420, 2>> }

ChangesIn(start, end) ==
    { [last_changed |-> <<"dt", d * MinutesPerDay + c[1]>>, state |-> c[2]] :
        d \in (start \div MinutesPerDay)..(end \div MinutesPerDay), c \in DailyChanges }

RECURSIVE SeqOfSamples(_)
SeqOfSamples(S) ==
    IF S = {} THEN <<>>
    ELSE LET m == CHOOSE x \in S : \A y \in S : x.last_changed[2] <= y.last_changed[2]
         IN <<m>> \o SeqOfSamples(S \ {m})

GetHistory(start, end) ==
    SeqOfSamples({ x \in ChangesIn(start, end) :
                     x.last_changed[2] > start /\ x.last_changed[2] <= end })

\* get_history_data: fetch in STEP_MINUTES chunks from start_time to end_time
RECURSIVE GetHistoryData(_, _)
GetHistoryData(current_time, end_time) ==
    IF ~(current_time < end_time) THEN <<>>
    ELSE LET next_time == Min2(current_time + STEP_MINUTES, end_time)
         IN GetHistory(current_time, next_time) \o GetHistoryData(next_time, end_time)

(***************************************************************************)
(* The stages of a run.  Each stage maps st = [self, hass, files, run,     *)
(* raised] to the st after it, reading the environment at wall-clock time  *)
(* `wall`.  raised = TRUE: an exception left the stage.                    *)
(***************************************************************************)

\* ---- get_consumption_forecast ------------------------------------------
\* a retention filter that compares calendar days instead of instants
RECURSIVE FilterRecentByDay(_, _)
FilterRecentByDay(history, since) ==
    IF history = <<>> THEN <<>>
    ELSE IF Head(history).last_changed[2] > DateOf(since)
         THEN <<Head(history)>> \o FilterRecentByDay(Tail(history), since)
         ELSE FilterRecentByDay(Tail(history), since)

RECURSIVE FilterRecent(_, _)
FilterRecent(history, since) ==
    IF history = <<>> THEN <<>>
    ELSE IF FromIsoFormat(Head(history).last_changed) >= since
         THEN <<Head(history)>> \o FilterRecent(Tail(history), since)
         ELSE FilterRecent(Tail(history), since)

\* average_slot[slot]: mean of the samples of the slot, 0.0 without samples
AverageSlot(history_data, slot) ==
    LET idx    == { i \in 1..Len(history_data) : SlotOf(TimestampOf(history_data[i])) = slot }
        values == [i \in idx |-> history_data[i].state]
        RECURSIVE SumOver(_)
        SumOver(I) == IF I = {} THEN 0
                      ELSE LET i == CHOOSE j \in I : TRUE IN values[i] + SumOver(I \ {i})
    IN IF idx = {} THEN 0 ELSE SumOver(idx) \div Cardinality(idx)

\* json.load of the history file
\* the file operations that fail with an I/O error while the fault lasts:
\* open() for reading or for writing raises OSError
FaultKinds == {"load_history", "save_history", "load_windows", "save_windows"}

\* load_consumption_history: [] when the file cannot be read
LoadConsumptionHistory(fs) ==
    IF "load_history" \in fs.faults THEN <<>> ELSE fs.history

\* make_json_serializable: datetimes become ISO text, the rest is kept
MakeJsonSerializable(history_data) ==
    Explicit([i \in 1..Len(history_data) |->
        IF history_data[i].last_changed[1] = "dt"
        THEN [history_data[i] EXCEPT !.last_changed = IsoFormat(@)]
        ELSE history_data[i]])

\* json.dump of the serializable history
SaveConsumptionHistory(fs, history_data) ==
    IF "save_history" \in fs.faults THEN fs
    ELSE [fs EXCEPT !.history = MakeJsonSerializable(history_data)]

\* get_history_data over the whole retention period, evaluated once per now
FullFetchTable ==
    Explicit([now \in { GetNowTime(i) : i \in Instants } |->
        GetHistoryData(now - HISTORY_DAYS_FALLBACK * MinutesPerDay, now)])

GetConsumptionForecast(st, wall) ==
    LET days             == HISTORY_DAYS_FALLBACK
        loaded           == LoadConsumptionHistory(st.files)
        now              == GetNowTime(wall)
        history_days_ago == now - days * MinutesPerDay
        kept             == FilterRecent(loaded, history_days_ago)
        last_timestamp   == IF kept # <<>>
                            THEN SetMax({ FromIsoFormat(kept[i].last_changed) : i \in 1..Len(kept) })
                            ELSE history_days_ago
        new_data         == IF last_timestamp = history_days_ago THEN FullFetchTable[now]
                            ELSE GetHistoryData(last_timestamp, now)
        history_data     == kept \o new_data
        forecast         == Explicit([k \in 1..st.self.T |->
                               AverageSlot(history_data, SlotOf(now + STEP_MINUTES * (k - 1)))])
    IN [st EXCEPT !.files = SaveConsumptionHistory(st.files, history_data),
                  !.self.consumption_forecast = forecast]

\* ---- get_solar_production_forecast -------------------------------------
\* points.sort(key=lambda x: x[0]): a stable sort by time.  The point at
\* index i goes to the place given by the number of points before it.
SortPoints(points) ==
    LET n     == Len(points)
        rank  == Explicit([i \in 1..n |->
                    Cardinality({ j \in 1..n : \/ points[j][1] < points[i][1]
                                               \/ points[j][1] = points[i][1] /\ j < i })])
        place == Explicit([k \in 1..n |-> CHOOSE i \in 1..n : rank[i] = k - 1])
    IN Explicit([k \in 1..n |-> points[place[k]]])

\* the usable (timestamp, value) points of the combined sensor entries
ParsePoints(entries) ==
    LET usable == SelectSeq(entries, LAMBDA e : e.pv_estimate # None)
    IN Explicit([k \in 1..Len(usable) |->
                    <<usable[k].period_start, Val(usable[k].pv_estimate)>>])

\* interp_value(ts): None outside the range of the points
InterpValue(points, ts) ==
    LET n     == Len(points)
        exact == { i \in 1..n : points[i][1] = ts }
        brk   == { i \in 1..(n - 1) : points[i][1] <= ts /\ ts <= points[i + 1][1] }
    IN IF exact # {} THEN Some(points[SetMin(exact)][2])
       ELSE IF ts < points[1][1] \/ ts > points[n][1] THEN None
       ELSE IF brk = {} THEN None
       ELSE LET i     == SetMin(brk)
                t0    == points[i][1]
                v0    == points[i][2]
                t1    == points[i + 1][1]
                v1    == points[i + 1][2]
                total == t1 - t0
            IN IF total = 0 THEN Some(v0)
               ELSE Some(v0 + ((ts - t0) * (v1 - v0)) \div total)

\* the loop "for t in range(self.T)": <<solar_forecast, T>> from step t on
RECURSIVE SolarLoop(_, _, _, _, _)
SolarLoop(points, now, t, T, acc) ==
    IF t >= T THEN <<acc, T>>
    ELSE LET value == InterpValue(points, now + STEP_MINUTES * t)
         IN IF value = None THEN <<acc, t>>
            ELSE SolarLoop(points, now, t + 1, T, Append(acc, Val(value)))

\* the sorted points of the three sensors when `day` is today
SolarPoints(sensor, day) ==
    SortPoints(ParsePoints(SolarAttribute(sensor.today, day)
                           \o SolarAttribute(sensor.tomorrow, day + 1)
                           \o SolarAttribute(sensor.day_after, day + 2)))

\* SolarAttribute and SolarPoints, evaluated once per sensor content and day
ModelDays == { DateOf(i) : i \in Instants }
SolarAttributeTable ==
    Explicit([k \in SolarShapes \X ModelDays |-> SolarAttribute(k[1], k[2])])
SolarPointsTable ==
    Explicit([k \in SolarInputs \X ModelDays |-> SolarPoints(k[1], k[2])])

GetSolarProductionForecast(st, wall) ==
    LET day      == DateOf(wall)
        today    == SolarAttributeTable[<<solarSensor.today, day>>]
        points   == SolarPointsTable[<<solarSensor, day>>]
        res      == SolarLoop(points, GetNowTime(wall), 0, st.self.T, <<>>)
    IN IF today = <<>> THEN st
       ELSE IF points = <<>> THEN st
       ELSE [st EXCEPT !.self.solar_forecast = res[1],
                       !.self.T = res[2]]

\* ---- get_energy_price_forecast -----------------------------------------
\* price_entry["total"] * 100  (EUR/kWh -> ct/kWh)
PriceCt(total) == (total * 100) \div PriceScale

\* price_entry["total"] can be evaluated: the entry has the key
HasTotal(price_entry) == "total" \in DOMAIN price_entry

\* a price loop that stops at the first missing entry without lowering T
RECURSIVE PriceLoopKeepsT(_, _, _, _, _)
PriceLoopKeepsT(combined, current_index, t, T, acc) ==
    IF t >= T THEN <<acc, T, FALSE>>
    ELSE LET index == current_index + t
         IN IF index < Len(combined)
            THEN IF ~HasTotal(combined[index + 1]) THEN <<acc, T, TRUE>>
                 ELSE PriceLoopKeepsT(combined, current_index, t + 1, T,
                                      Append(acc, PriceCt(combined[index + 1].total)))
            ELSE <<acc, T, FALSE>>

\* the loop "for t in range(self.T)" from step t on: <<price_forecast, T,
\* raised>>, raised when price_entry["total"] is a KeyError
RECURSIVE PriceLoop(_, _, _, _, _)
PriceLoop(combined, current_index, t, T, acc) ==
    IF t >= T THEN <<acc, T, FALSE>>
    ELSE LET index == current_index + t
         IN IF index < Len(combined)
            THEN IF ~HasTotal(combined[index + 1]) THEN <<acc, T, TRUE>>
                 ELSE PriceLoop(combined, current_index, t + 1, T,
                                Append(acc, PriceCt(combined[index + 1].total)))
            ELSE <<acc, IF T > t THEN t ELSE T, FALSE>>

\* PriceAttribute, evaluated once per content
PriceAttributeTable == Explicit([shape \in PriceShapes |-> PriceAttribute(shape)])

\* a forecaster that reads the combined table from its first entry
PriceForecastFromStart(today, tomorrow, after, current_index, T) ==
    LET combined == today \o tomorrow \o after
        res      == PriceLoop(combined, 0, 0, T, <<>>)
    IN IF today = <<>> THEN [price_forecast |-> <<>>, T |-> T, raised |-> FALSE]
       ELSE IF res[3] THEN [price_forecast |-> <<>>, T |-> T, raised |-> TRUE]
       ELSE [price_forecast |-> res[1], T |-> res[2], raised |-> FALSE]

\* the body of get_energy_price_forecast on the three daily tables, the
\* current index and the incoming horizon: the new price_forecast and T.
\* An exception in the loop leaves price_forecast cleared and T as it was.
PriceForecast(today, tomorrow, after, current_index, T) ==
    LET combined == today \o tomorrow \o after
        res      == PriceLoop(combined, current_index, 0, T, <<>>)
    IN IF today = <<>> THEN [price_forecast |-> <<>>, T |-> T, raised |-> FALSE]
       ELSE IF res[3] THEN [price_forecast |-> <<>>, T |-> T, raised |-> TRUE]
       ELSE [price_forecast |-> res[1], T |-> res[2], raised |-> FALSE]

GetEnergyPriceForecast(st, wall) ==
    LET today         == PriceAttributeTable[priceSensor.today]
        tomorrow      == PriceAttributeTable[priceSensor.tomorrow]
        after         == PriceAttributeTable[priceSensor.day_after]
        now           == GetNowTime(wall)
        current_index == SlotOf(now)
        res           == PriceForecast(today, tomorrow, after, current_index, st.self.T)
    IN [st EXCEPT !.self.price_forecast = res.price_forecast,
                  !.self.T = res.T,
                  !.raised = res.raised]

\* ---- optimize_battery: the MILP ----------------------------------------
\* One step t of the decision variables: x = [G, Chs, Chg, Dch, E, Full,
\* soc1] for Grid_Import, Battery_Charge_Solar, Battery_Charge_Grid,
\* Battery_Discharge, Grid_Export, FullCharge and SoC[t+1]; sur is
\* Surplus_Solar and soc0 is SoC[t].  cap, lower, soc0, soc1 are fixed-point
\* energies.  The variables range over the integers: the solver is searched
\* on the grid of the fixed-point resolution.

\* M = self.BATTERY_CAPACITY * 2
BigM(cap) == cap * 2

\* Energy_Balance:  S + G + Dch*eff == C + Ch_solar + Ch_grid + E
EnergyBalance(x, S, C) ==
    EffDen * (S + x.G) + EffNum * x.Dch = EffDen * (C + x.Chs + x.Chg + x.E)

\* SoC_Update:  SoC[t+1] == SoC[t] + (Ch_solar+Ch_grid)*eff*delta - Dch*delta
SoCUpdate(x, soc0) ==
    x.soc1 = soc0 + (x.Chs + x.Chg) * EffNum - x.Dch * EffDen

\* Surplus_Solar_Definition, Surplus_Solar_NonNegative, Solar_Charging_Limit
SolarSurplus(x, sur, S, C) ==
    /\ sur >= S - C
    /\ sur >= 0
    /\ x.Chs <= sur

\* SoC_FullCharge_Link:  SoC[t+1] >= capacity - (1 - FullCharge)*M
FullChargeLink(x, cap) == x.soc1 >= cap - (1 - x.Full) * BigM(cap)

\* an export bound that does not read FullCharge:  E <= M
ExportUnlinked(x, cap) == x.E * SocScale <= BigM(cap)

\* Export_Only_When_Full:  E <= FullCharge * M
ExportOnlyWhenFull(x, cap) == x.E * SocScale <= x.Full * BigM(cap)

StepConstraints(x, sur, soc0, S, C, cap, lower) ==
    \* lowBound=0 of the continuous variables
    /\ x.G >= 0 /\ x.Chs >= 0 /\ x.Chg >= 0 /\ x.Dch >= 0 /\ x.E >= 0 /\ sur >= 0
    /\ EnergyBalance(x, S, C)
    /\ SoCUpdate(x, soc0)
    \* bounds of the variable SoC[t+1] (lowBound=0, upBound=capacity)
    /\ 0 <= x.soc1 /\ x.soc1 <= cap
    \* SoC_Min, SoC_Max
    /\ x.soc1 >= lower
    /\ x.soc1 <= cap
    \* Charge_Rate_Limit, Charge_Solar_Limit_Actual_Solar, Discharge_Rate_Limit
    /\ x.Chs + x.Chg <= CHARGE_RATE_MAX
    /\ x.Chs <= S
    /\ x.Dch <= DISCHARGE_RATE_MAX
    /\ SolarSurplus(x, sur, S, C)
    \* Grid_Charging_Limit
    /\ x.Chg <= x.G
    \* Grid_Export_NonNegative
    /\ x.E >= 0
    /\ FullChargeLink(x, cap)
    /\ ExportOnlyWhenFull(x, cap)

\* the candidate values of one step: every combination of the variables the
\* constraints bound directly; G is the value the balance leaves for it and
\* soc1 the value the update leaves for it.
StepCandidate(soc0, S, C, chs, chg, dch, e, full) ==
    [G    |-> (EffDen * (C + chs + chg + e - S) - EffNum * dch) \div EffDen,
     Chs  |-> chs, Chg |-> chg, Dch |-> dch, E |-> e, Full |-> full,
     soc1 |-> soc0 + (chs + chg) * EffNum - dch * EffDen]

\* the values of one step that satisfy the constraints, given SoC[t] = soc0
StepChoices(soc0, S, C, cap, lower) ==
    { x \in { StepCandidate(soc0, S, C, v[1], v[2], v[3], v[4], v[5]) :
                v \in (0..CHARGE_RATE_MAX) \X (0..CHARGE_RATE_MAX) \X (0..DISCHARGE_RATE_MAX)
                      \X (0..(BigM(cap) \div SocScale)) \X {0, 1} } :
        \E sur \in 0..MaxPower : StepConstraints(x, sur, soc0, S, C, cap, lower) }

\* StepChoices, evaluated once per problem data of a step
Capacities == { Val(c) : c \in CapInputs \ {None} }
LowerLimits == { Val(b) : b \in BufInputs \ {None} }
Consumptions == { 0 } \cup { c[2] : c \in DailyChanges }
StepTable ==
    Explicit([k \in (0..SetMax(Capacities)) \X (0..MaxPower) \X Consumptions
                     \X Capacities \X LowerLimits |->
                 StepChoices(k[1], k[2], k[3], k[4], k[5])])

\* all assignments of the T steps that satisfy every constraint, from SoC[t]
RECURSIVE Plans(_, _, _, _, _, _, _)
Plans(t, T, soc0, S_t, C_t, cap, lower) ==
    IF t >= T THEN { <<>> }
    ELSE UNION { { <<x>> \o rest : rest \in Plans(t + 1, T, x.soc1, S_t, C_t, cap, lower) } :
                  x \in StepTable[<<soc0, S_t[t + 1], C_t[t + 1], cap, lower>>] }

\* the objective, times SocScale:
\*   lpSum(P_t[t]*G[t]*delta - FEED_IN_TARIFF*E[t]*delta) - P_end * SoC[T]
RECURSIVE ImportCost(_, _, _)
ImportCost(plan, P_t, t) ==
    IF t > Len(plan) THEN 0
    ELSE (P_t[t] * plan[t].G - FEED_IN_TARIFF * plan[t].E) * EffDen + ImportCost(plan, P_t, t + 1)

FinalSoC(plan, SoC_0) == IF plan = <<>> THEN SoC_0 ELSE plan[Len(plan)].soc1

\* P_end = np.min(P_t)
Objective(plan, P_t, P_end, SoC_0) ==
    ImportCost(plan, P_t, 1) - P_end * FinalSoC(plan, SoC_0)

\* prob.solve: the status and the optimal assignments (the solver returns one)
Solve(T, SoC_0, S_t, C_t, P_t, cap, lower) ==
    LET feasible == IF 0 <= SoC_0 /\ SoC_0 <= cap
                    THEN Plans(0, T, SoC_0, S_t, C_t, cap, lower) ELSE {}
        P_end    == SetMin({ P_t[i] : i \in 1..Len(P_t) })
        scored   == { <<Objective(p, P_t, P_end, SoC_0), p>> : p \in feasible }
        lowest   == SetMin({ sp[1] : sp \in scored })
        best     == { sp[2] : sp \in { r \in scored : r[1] = lowest } }
    IN IF feasible = {} THEN [status |-> "Infeasible", plans |-> {}]
       ELSE [status |-> "Optimal", plans |-> best]

\* an extraction that stores the SoC at the end of the step, SoC[t+1]
ScheduleOfEndSoc(plan, now, SoC_0, C_t, S_t) ==
    Explicit([k \in 1..Len(plan) |->
        [time         |-> now + STEP_MINUTES * (k - 1),
         charge_solar |-> plan[k].Chs,
         charge_grid  |-> plan[k].Chg,
         discharge    |-> plan[k].Dch,
         export       |-> plan[k].E,
         grid_import  |-> plan[k].G,
         consumption  |-> C_t[k],
         soc          |-> plan[k].soc1,
         full_charge  |-> plan[k].Full]])

\* the schedule extracted from an optimal assignment: entry t holds the
\* values of step t and soc = SoC[t].varValue
ScheduleOf(plan, now, SoC_0, C_t, S_t) ==
    Explicit([k \in 1..Len(plan) |->
        [time         |-> now + STEP_MINUTES * (k - 1),
         charge_solar |-> plan[k].Chs,
         charge_grid  |-> plan[k].Chg,
         discharge    |-> plan[k].Dch,
         export       |-> plan[k].E,
         grid_import  |-> plan[k].G,
         consumption  |-> C_t[k],
         soc          |-> IF k = 1 THEN SoC_0 ELSE plan[k - 1].soc1,
         full_charge  |-> plan[k].Full]])

\* optimize_battery up to the solver call.  Result: [st, next] where next is
\* "return" (an early return), "raise" (IndexError in the loop over
\* range(self.T) that reads C_t[t], S_t[t], P_t[t]) or "solve".
BatteryPrepare(st) ==
    LET s0     == [st EXCEPT !.self.charging_schedule = <<>>, !.run.invoked = TRUE]
        s1     == [s0 EXCEPT !.self.BATTERY_CAPACITY = capSensor,
                             !.self.LOWER_BATTERY_LIMIT = bufSensor]
        T      == st.self.T
        short  == \/ Len(st.self.consumption_forecast) < T
                  \/ Len(st.self.solar_forecast) < T
                  \/ Len(st.self.price_forecast) < T
    IN IF capSensor = None \/ bufSensor = None THEN [st |-> s0, next |-> "return"]
       ELSE IF socSensor = None THEN [st |-> s1, next |-> "return"]
       ELSE IF short THEN [st |-> [s1 EXCEPT !.raised = TRUE], next |-> "raise"]
       ELSE IF Len(st.self.price_forecast) = 0 THEN [st |-> s1, next |-> "return"]
       ELSE [st |-> s1, next |-> "solve"]

\* SoC_0 = (SoC_percentage / 100) * BATTERY_CAPACITY
InitialSoC(percentage, capacity) == (percentage * capacity) \div 100

\* the problem handed to the solver by a prepared st
BatterySolve(st) ==
    Solve(st.self.T, InitialSoC(Val(socSensor), Val(st.self.BATTERY_CAPACITY)),
          st.self.solar_forecast, st.self.consumption_forecast, st.self.price_forecast,
          Val(st.self.BATTERY_CAPACITY), Val(st.self.LOWER_BATTERY_LIMIT))

\* what optimize_battery can leave behind: one st per assignment the solver
\* may return
OptimizeBattery(st, wall) ==
    LET prep == BatteryPrepare(st)
        p    == prep.st
        sol  == BatterySolve(p)
    IN IF prep.next # "solve" THEN { p }
       ELSE IF sol.status # "Optimal"
            THEN { [p EXCEPT !.run.status = sol.status, !.run.Tused = Some(p.self.T)] }
       ELSE { [p EXCEPT !.run.status = sol.status,
                        !.run.Tused = Some(p.self.T),
                        !.self.charging_schedule =
                            ScheduleOf(plan, GetNowTime(wall),
                                       InitialSoC(Val(socSensor), Val(p.self.BATTERY_CAPACITY)),
                                       p.self.consumption_forecast, p.self.solar_forecast)] :
                plan \in sol.plans }

\* ---- calculate_max_discharge_possible ----------------------------------
\* the value of step t (from 1); SoC and the result are fixed-point, the
\* rate limit is compared at the same scale
MaxDischargeAt(schedule, t) ==
    LET T           == Len(schedule)
        SoC_current == schedule[t].soc
        SoC_next    == IF t < T THEN schedule[t + 1].soc ELSE SoC_current
        max_discharge ==
            IF SoC_next > SoC_current \/ schedule[t].export > 0 THEN SoC_current
            ELSE IF schedule[t].discharge > 0 THEN SoC_current
            ELSE 0
    IN Max2(0, Min2(Min2(max_discharge, DISCHARGE_RATE_MAX * SocScale), SoC_current))

CalculateMaxDischargePossible(st) ==
    [st EXCEPT !.self.max_discharge_possible =
        Explicit([t \in 1..Len(st.self.charging_schedule) |->
                     MaxDischargeAt(st.self.charging_schedule, t)])]

\* ---- identify_cheapest_hours / identify_most_expensive_hours ------------
MAX_PRICE_THRESH_CT == 80
CutoffHour == 16
WindowHours == 1..8

WindowSum(prices, i, window_size) == SumSeq(SubSeq(prices, i + 1, i + window_size))

\* find_cheapest_windows(prices, window_size): the step indices (from 0) of
\* the chosen window.  min_start starts at 0 and moves only to a window that
\* is not skipped and has a strictly smaller total.
\* a scan that also moves to a window with an equal total
RECURSIVE CheapestScanLastTie(_, _, _, _, _)
CheapestScanLastTie(prices, window_size, i, min_total, min_start) ==
    IF i > Len(prices) - window_size THEN min_start
    ELSE LET skip == \E k \in (i + 1)..(i + window_size) : prices[k] > MAX_PRICE_THRESH_CT
             total == WindowSum(prices, i, window_size)
         IN IF skip THEN CheapestScanLastTie(prices, window_size, i + 1, min_total, min_start)
            ELSE IF min_total = None \/ total <= Val(min_total)
                 THEN CheapestScanLastTie(prices, window_size, i + 1, Some(total), i)
                 ELSE CheapestScanLastTie(prices, window_size, i + 1, min_total, min_start)

RECURSIVE CheapestScan(_, _, _, _, _)
CheapestScan(prices, window_size, i, min_total, min_start) ==
    IF i > Len(prices) - window_size THEN min_start
    ELSE LET skip == \E k \in (i + 1)..(i + window_size) : prices[k] > MAX_PRICE_THRESH_CT
             total == WindowSum(prices, i, window_size)
         IN IF skip THEN CheapestScan(prices, window_size, i + 1, min_total, min_start)
            ELSE IF min_total = None \/ total < Val(min_total)
                 THEN CheapestScan(prices, window_size, i + 1, Some(total), i)
                 ELSE CheapestScan(prices, window_size, i + 1, min_total, min_start)

FindCheapestWindows(prices, window_size) ==
    IF window_size <= 0 \/ window_size > Len(prices) THEN <<>>
    ELSE LET min_start == CheapestScan(prices, window_size, 0, None, 0)
         IN Explicit([k \in 1..window_size |-> min_start + k - 1])

RECURSIVE ExpensiveScan(_, _, _, _, _)
ExpensiveScan(prices, window_size, i, max_total, max_start) ==
    IF i > Len(prices) - window_size THEN max_start
    ELSE LET total == WindowSum(prices, i, window_size)
         IN IF max_total = None \/ total > Val(max_total)
            THEN ExpensiveScan(prices, window_size, i + 1, Some(total), i)
            ELSE ExpensiveScan(prices, window_size, i + 1, max_total, max_start)

FindMostExpensiveWindows(prices, window_size) ==
    IF window_size <= 0 \/ window_size > Len(prices) THEN <<>>
    ELSE LET max_start == ExpensiveScan(prices, window_size, 0, None, 0)
         IN Explicit([k \in 1..window_size |-> max_start + k - 1])

\* the first slots_per_day entries of a raw day list, in ct
DayPrices(raw_list) ==
    Explicit([i \in 1..Min2(SlotsPerDay, Len(raw_list)) |->
                 IF HasTotal(raw_list[i]) THEN PriceCt(raw_list[i].total) ELSE 0])

\* the step indices of the window of h hours inside one day's raw list
DayIndices(cheap, raw_list, h) ==
    LET day_prices   == DayPrices(raw_list)
        window_steps == h * (60 \div STEP_MINUTES)
    IN IF raw_list = <<>> \/ window_steps > Len(day_prices) THEN <<>>
       ELSE IF cheap THEN FindCheapestWindows(day_prices, window_steps)
       ELSE FindMostExpensiveWindows(day_prices, window_steps)

\* DayIndices, evaluated once per content of a day's list
DayIndicesTable ==
    Explicit([k \in BOOLEAN \X PriceShapes \X WindowHours |->
                 DayIndices(k[1], PriceAttribute(k[2]), k[3])])

\* the timestamps of the window of h hours inside the day starting at day_start
DayWindow(cheap, shape, h, day_start) ==
    LET indices == DayIndicesTable[<<cheap, shape, h>>]
    IN Explicit([k \in 1..Len(indices) |-> day_start + indices[k] * STEP_MINUTES])

\* windows_out: per window length, the timestamps over today, tomorrow and
\* the day after
ComputedWindows(cheap, sensor, date) ==
    LET day_start(d) == (date + d) * MinutesPerDay
    IN Explicit([h \in WindowHours |->
          DayWindow(cheap, sensor.today, h, day_start(0))
          \o DayWindow(cheap, sensor.tomorrow, h, day_start(1))
          \o DayWindow(cheap, sensor.day_after, h, day_start(2))])

\* ComputedWindows, evaluated once per sensor content and date
ComputedWindowsTable ==
    Explicit([k \in BOOLEAN \X PriceInputs \X ModelDays |->
                 ComputedWindows(k[1], k[2], k[3])])

\* dateToRelativeHour: steps between now and date, the step being the
\* fallback of 15 minutes (the class attribute STEP_MINUTES is never set)
DateToRelativeHour(date, now) == (date - now) \div NowStepFallback

\* the flags of one window length over the horizon
WindowFlags(iso_list, now, T) ==
    LET rels == { DateToRelativeHour(iso_list[j], now) : j \in 1..Len(iso_list) }
    IN Explicit([k \in 1..T |-> (k - 1) \in rels])

\* a body that saves in every run after the cutoff, whatever the stored date
IdentifyWindowsSavesEveryRun(cheap, doc, wall, T) ==
    LET now           == GetNowTime(wall)
        forecast_date == DateOf(now)
        computed      == ComputedWindowsTable[<<cheap, priceSensor, forecast_date>>]
        saving        == HourOf(now) > CutoffHour
        windows_out   == IF saving \/ doc = None THEN computed ELSE Val(doc).windows
    IN [doc   |-> IF saving THEN Some([forecast_date |-> forecast_date, windows |-> computed])
                  ELSE doc,
        flags |-> Explicit([h \in WindowHours |-> WindowFlags(windows_out[h], now, T)])]

\* the common body of the two methods: doc is the loaded document (None
\* without a file).  Result: [doc, flags]
IdentifyWindows(cheap, doc, wall, T) ==
    LET now           == GetNowTime(wall)
        forecast_date == DateOf(now)
        computed      == ComputedWindowsTable[<<cheap, priceSensor, forecast_date>>]
        saving        == (doc = None \/ Val(doc).forecast_date # forecast_date)
                         /\ HourOf(now) > CutoffHour
        windows_out   == IF saving \/ doc = None THEN computed ELSE Val(doc).windows
    IN [doc   |-> IF saving THEN Some([forecast_date |-> forecast_date, windows |-> computed])
                  ELSE doc,
        flags |-> Explicit([h \in WindowHours |-> WindowFlags(windows_out[h], now, T)])]

\* load_cheap_windows / load_expensive_windows: {} when the file cannot be read
LoadWindows(fs, doc) == IF "load_windows" \in fs.faults THEN None ELSE doc

\* save_cheap_windows / save_expensive_windows: the file after the call
SaveWindows(fs, old, new) == IF "save_windows" \in fs.faults THEN old ELSE new

\* the method with a save whose exception is not caught
IdentifyCheapestHoursUnguardedSave(st, wall) ==
    LET loaded == LoadWindows(st.files, st.files.cheap_windows)
        r      == IdentifyWindows(TRUE, loaded, wall, st.self.T)
    IN IF r.doc # loaded /\ "save_windows" \in st.files.faults
       THEN [st EXCEPT !.raised = TRUE]
       ELSE [st EXCEPT !.files.cheap_windows = IF r.doc # loaded THEN r.doc ELSE @,
                       !.self.within_cheapest = r.flags]

\* r.doc differs from the loaded document exactly when the method saves
IdentifyCheapestHours(st, wall) ==
    LET loaded == LoadWindows(st.files, st.files.cheap_windows)
        r      == IdentifyWindows(TRUE, loaded, wall, st.self.T)
    IN [st EXCEPT !.files.cheap_windows =
                      IF r.doc # loaded THEN SaveWindows(st.files, @, r.doc) ELSE @,
                  !.self.within_cheapest = r.flags]

IdentifyMostExpensiveHours(st, wall) ==
    LET loaded == LoadWindows(st.files, st.files.expensive_windows)
        r      == IdentifyWindows(FALSE, loaded, wall, st.self.T)
    IN [st EXCEPT !.files.expensive_windows =
                      IF r.doc # loaded THEN SaveWindows(st.files, @, r.doc) ELSE @,
                  !.self.within_most_expensive = r.flags]

\* ---- update_forecast_sensors -------------------------------------------
\* _format_forecast_value: a numeric zero becomes the string "0"
FormatForecastValue(value) == IF value = 0 THEN <<"str", "0">> ELSE <<"num", value>>

OnOff(b) == IF b THEN <<"str", "on">> ELSE <<"str", "off">>

ForecastSensors ==
    {"charge_solar", "charge_grid", "discharge", "grid_export", "grid_import",
     "soc", "soc_percentage", "consumption_forecast", "solar_forecast",
     "max_discharge"}
BinarySensors == {"full_charge", "charging", "discharging"}

\* the value appended to forecasts[sensor] for step t (from 1)
ForecastValue(sf, sensor, t) ==
    LET entry == sf.charging_schedule[t]
    IN CASE sensor = "charge_solar"   -> FormatForecastValue(entry.charge_solar)
         [] sensor = "charge_grid"    -> FormatForecastValue(entry.charge_grid)
         [] sensor = "discharge"      -> FormatForecastValue(entry.discharge)
         [] sensor = "grid_export"    -> FormatForecastValue(entry.export)
         [] sensor = "grid_import"    -> FormatForecastValue(entry.grid_import)
         [] sensor = "soc"            -> FormatForecastValue(entry.soc)
         [] sensor = "soc_percentage" ->
                FormatForecastValue((entry.soc * 100) \div Val(sf.BATTERY_CAPACITY))
         [] sensor = "consumption_forecast" -> FormatForecastValue(sf.consumption_forecast[t])
         [] sensor = "solar_forecast" -> FormatForecastValue(sf.solar_forecast[t])
         [] sensor = "max_discharge"  -> FormatForecastValue(sf.max_discharge_possible[t])
         [] sensor = "full_charge"    -> OnOff(entry.full_charge >= 1)
         [] sensor = "charging"       -> OnOff(entry.charge_grid > 0)
         [] sensor = "discharging"    -> OnOff(entry.discharge > 0)

\* forecasts[sensor]: [timestamp, value] per entry of the schedule
ForecastData(sf, sensor) ==
    Explicit([t \in 1..Len(sf.charging_schedule) |->
                 <<sf.charging_schedule[t].time, ForecastValue(sf, sensor, t)>>])

\* the state written for a sensor: the entry stamped now, else the first
\* entry, else "off" / "0"
CurrentValue(data, binary, now) ==
    LET hit == { i \in 1..Len(data) : data[i][1] = now }
    IN IF hit # {} THEN data[SetMin(hit)][2]
       ELSE IF data # <<>> THEN data[1][2]
       ELSE IF binary THEN <<"str", "off">> ELSE <<"str", "0">>

\* float(self.get_state(SENSOR_CHARGE_GRID_SESSION) or 0)
SessionReading(entity) == IF entity.state[1] = "num" THEN entity.state[2] ELSE 0

\* the loop over the schedule that builds the charge session, from entry t
RECURSIVE SessionLoop(_, _, _, _)
SessionLoop(schedule, t, now, acc) ==
    IF t > Len(schedule) THEN acc
    ELSE LET cg == schedule[t].charge_grid
         IN IF t = 1 /\ cg > 0 /\ ~acc.in_session
            THEN SessionLoop(schedule, t + 1, now,
                     [in_session |-> TRUE, session_start |-> Some(now),
                      charge_grid_session |-> cg, session_duration |-> 1])
            ELSE IF t = 1 /\ cg = 0
            THEN [in_session |-> FALSE, session_start |-> None,
                  charge_grid_session |-> 0, session_duration |-> 0]
            ELSE IF cg > 0 /\ acc.in_session
            THEN SessionLoop(schedule, t + 1, now,
                     [acc EXCEPT !.charge_grid_session = @ + cg,
                                 !.session_duration = @ + 1])
            ELSE IF cg = 0 /\ acc.in_session THEN acc
            ELSE SessionLoop(schedule, t + 1, now, acc)

ChargeSession(schedule, entity, now) ==
    LET current_session == SessionReading(entity)
        start == [in_session |-> current_session > 0, session_start |-> None,
                  charge_grid_session |-> current_session, session_duration |-> 0]
        res   == SessionLoop(schedule, 1, now, start)
    IN [state            |-> FormatForecastValue(res.charge_grid_session),
        session_start    |-> res.session_start,
        session_duration |-> res.session_duration]

UpdateForecastSensors(st, wall) ==
    LET now == GetNowTime(wall)
        sf  == st.self
        published ==
            [sensor \in ForecastSensors \cup BinarySensors |->
                LET data == ForecastData(sf, sensor)
                IN [state |-> CurrentValue(data, sensor \in BinarySensors, now), forecast |-> data]]
        session == ChargeSession(sf.charging_schedule, st.hass.charge_grid_session, now)
        horizon == [state |-> <<sf.T * STEP_MINUTES, 60>>, steps |-> sf.T]
        windows(flags) ==
            [h \in WindowHours |->
                LET data == Explicit([t \in 1..Len(sf.charging_schedule) |->
                                <<sf.charging_schedule[t].time, OnOff(flags[h][t])>>])
                IN [state |-> CurrentValue(data, TRUE, now), forecast |-> data]]
    IN [st EXCEPT !.hass = [entities              |-> published,
                            within_cheapest       |-> windows(sf.within_cheapest),
                            within_most_expensive |-> windows(sf.within_most_expensive),
                            charge_grid_session   |-> session,
                            forecast_horizon      |-> horizon]]

(***************************************************************************)
(* optimize(kwargs): one run.                                              *)
(***************************************************************************)
Stages == <<"consumption", "solar", "price", "battery", "max_discharge",
            "cheapest", "expensive", "sensors">>

FreshRun ==
    [exit |-> "running", status |-> "none", invoked |-> FALSE,
     Tused |-> None, Ts |-> <<ConfiguredT>>]

NoteT(st) == [st EXCEPT !.run.Ts = Append(@, st.self.T)]

\* an entry of optimize that keeps the T the last run left behind
OptimizeStartKeepsT(st) ==
    NoteT([st EXCEPT !.run = [FreshRun EXCEPT !.Ts = <<>>], !.raised = FALSE])

\* entry of optimize: T is reset to the configured horizon
OptimizeStart(st) ==
    NoteT([st EXCEPT !.self.T = ConfiguredT,
                     !.run = [FreshRun EXCEPT !.Ts = <<>>], !.raised = FALSE])

\* the states one stage can leave behind
StageResults(stage, st, wall) ==
    CASE stage = "consumption"   -> { NoteT(GetConsumptionForecast(st, wall)) }
      [] stage = "solar"         -> { NoteT(GetSolarProductionForecast(st, wall)) }
      [] stage = "price"         -> { NoteT(GetEnergyPriceForecast(st, wall)) }
      [] stage = "battery"       -> OptimizeBattery(st, wall)
      [] stage = "max_discharge" -> { CalculateMaxDischargePossible(st) }
      [] stage = "cheapest"      -> { IdentifyCheapestHours(st, wall) }
      [] stage = "expensive"     -> { IdentifyMostExpensiveHours(st, wall) }
      [] stage = "sensors"       -> { UpdateForecastSensors(st, wall) }

\* the states a run can end in when it executes from stage number k on
\* without another callback in between
RECURSIVE RunFrom(_, _, _)
RunFrom(k, st, wall) ==
    IF st.raised THEN { [st EXCEPT !.run.exit = "raised"] }
    ELSE IF k > Len(Stages) THEN { [st EXCEPT !.run.exit = "returned"] }
    ELSE UNION { RunFrom(k + 1, nxt, wall) : nxt \in StageResults(Stages[k], st, wall) }

Current == [self |-> self, hass |-> hass, files |-> files, run |-> run, raised |-> FALSE]

Optimize(st, wall) == RunFrom(1, OptimizeStart(st), wall)


(***************************************************************************)
(* The state machine.                                                      *)
(***************************************************************************)
Workers == {1, 2}          \* host threads that can execute a callback

NoEntity == [state |-> <<"none", "">>, forecast |-> <<>>]

InitSelf ==
    [T |-> ConfiguredT,
     consumption_forecast |-> <<>>, solar_forecast |-> <<>>, price_forecast |-> <<>>,
     charging_schedule |-> <<>>, max_discharge_possible |-> <<>>,
     BATTERY_CAPACITY |-> None, LOWER_BATTERY_LIMIT |-> None,
     within_cheapest |-> [h \in WindowHours |-> <<>>],
     within_most_expensive |-> [h \in WindowHours |-> <<>>]]

InitHass ==
    [entities              |-> [sensor \in ForecastSensors \cup BinarySensors |-> NoEntity],
     within_cheapest       |-> [h \in WindowHours |-> NoEntity],
     within_most_expensive |-> [h \in WindowHours |-> NoEntity],
     charge_grid_session   |-> [state |-> <<"none", "">>, session_start |-> None,
                                session_duration |-> 0],
     forecast_horizon      |-> [state |-> <<0, 60>>, steps |-> 0]]

InitFiles ==
    [history |-> <<>>, cheap_windows |-> None, expensive_windows |-> None, faults |-> {}]

NoRun == [FreshRun EXCEPT !.exit = "none", !.Ts = <<>>]

\* no helper has been called on its own
NoCall == [fn |-> "none", args |-> <<>>, result |-> <<>>]

\* the app after initialize, before any callback
InitApp ==
    /\ self = InitSelf
    /\ hass = InitHass
    /\ files = InitFiles
    /\ run = NoRun
    /\ pc = [w \in Workers |-> 0]
    /\ startupDue = TRUE
    /\ call = NoCall

Init ==
    /\ clock = SetMin(Instants)
    /\ solarSensor \in SolarInputs
    /\ priceSensor \in PriceInputs
    /\ socSensor \in SocInputs
    /\ capSensor \in CapInputs
    /\ bufSensor \in BufInputs
    /\ updates = 0
    /\ InitApp

Idle == \A w \in Workers : pc[w] = 0

Adopt(st) ==
    /\ self' = st.self
    /\ hass' = st.hass
    /\ files' = st.files
    /\ run' = st.run

\* ---- the environment ---------------------------------------------------
\* time passes to the next instant; the start-up timer (5 s) has fired by then
Tick ==
    /\ Idle /\ ~startupDue
    /\ \E i \in Instants : i > clock
    /\ clock' = SetMin({ i \in Instants : i > clock })
    /\ UNCHANGED <<solarSensor, priceSensor, socSensor, capSensor, bufSensor, updates,
                   self, hass, files, run, pc, startupDue, call>>

SolarUpdate ==
    /\ Idle /\ updates < MaxUpdates
    /\ solarSensor' \in SolarInputs \ {solarSensor}
    /\ updates' = updates + 1
    /\ UNCHANGED <<clock, priceSensor, socSensor, capSensor, bufSensor,
                   self, hass, files, run, pc, startupDue, call>>

PriceUpdate ==
    /\ Idle /\ updates < MaxUpdates
    /\ priceSensor' \in PriceInputs \ {priceSensor}
    /\ updates' = updates + 1
    /\ UNCHANGED <<clock, solarSensor, socSensor, capSensor, bufSensor,
                   self, hass, files, run, pc, startupDue, call>>

\* one of the three battery sensors changes
BatteryUpdate ==
    /\ Idle /\ updates < MaxUpdates
    /\ \/ socSensor' \in SocInputs \ {socSensor} /\ UNCHANGED <<capSensor, bufSensor>>
       \/ capSensor' \in CapInputs \ {capSensor} /\ UNCHANGED <<socSensor, bufSensor>>
       \/ bufSensor' \in BufInputs \ {bufSensor} /\ UNCHANGED <<socSensor, capSensor>>
    /\ updates' = updates + 1
    /\ UNCHANGED <<clock, solarSensor, priceSensor, self, hass, files, run, pc, startupDue, call>>

\* ---- the callbacks, each run to completion (the app pinned to a thread) --
CanRun == SessionReading(hass.charge_grid_session) <= MaxSession

\* run_in(self.optimize, 5)
StartupRun ==
    /\ Idle /\ startupDue /\ CanRun
    /\ \E st \in Optimize(Current, clock) : Adopt(st)
    /\ startupDue' = FALSE
    /\ UNCHANGED <<envVars, pc, call>>

\* run_every(self.optimize, next_run, STEP_MINUTES * 60) with next_run =
\* get_now_time() at initialize: due every STEP_MINUTES after next_run
PeriodicDue ==
    LET next_run == GetNowTime(SetMin(Instants))
    IN clock > next_run /\ (clock - next_run) % STEP_MINUTES = 0

PeriodicRun ==
    /\ Idle /\ CanRun /\ PeriodicDue
    /\ \E st \in Optimize(Current, clock) : Adopt(st)
    /\ UNCHANGED <<envVars, pc, startupDue, call>>

\* listen_event(self.manual_trigger, event="MANUAL_BATTERY_OPTIMIZATION")
ManualTrigger ==
    /\ Idle /\ CanRun
    /\ \E st \in Optimize(Current, clock) : Adopt(st)
    /\ UNCHANGED <<envVars, pc, startupDue, call>>

Next ==
    \/ Tick
    \/ SolarUpdate
    \/ PriceUpdate
    \/ BatteryUpdate
    \/ StartupRun
    \/ PeriodicRun
    \/ ManualTrigger

Spec == Init /\ [][Next]_vars

\* ---- the callbacks while file operations can fail -----------------------
\* the faults that can be present together
FaultSets == { F \in SUBSET FaultKinds : Cardinality(F) <= 2 }

\* a file operation starts or stops failing (disk full, permissions, ...);
\* counted with the updates of the environment
FaultChange ==
    /\ Idle /\ updates < MaxUpdates
    /\ \E F \in FaultSets \ {files.faults} : files' = [files EXCEPT !.faults = F]
    /\ updates' = updates + 1
    /\ UNCHANGED <<clock, solarSensor, priceSensor, socSensor, capSensor, bufSensor,
                   self, hass, run, pc, startupDue, call>>

\* a household whose sensors are all present at the first instant, with
\* any of the fault sets
InitFaults ==
    /\ clock = SetMin(Instants)
    /\ solarSensor = [today |-> "ramp", tomorrow |-> "absent", day_after |-> "absent"]
    /\ priceSensor = [today |-> "late", tomorrow |-> "absent", day_after |-> "absent"]
    /\ socSensor = Some(25) /\ capSensor = Some(8) /\ bufSensor = Some(4)
    /\ updates = 0
    /\ self = InitSelf /\ hass = InitHass /\ run = NoRun
    /\ \E F \in FaultSets : files = [InitFiles EXCEPT !.faults = F]
    /\ pc = [w \in Workers |-> 0] /\ startupDue = TRUE /\ call = NoCall

NextFaults ==
    \/ Tick
    \/ SolarUpdate
    \/ PriceUpdate
    \/ BatteryUpdate
    \/ StartupRun
    \/ PeriodicRun
    \/ ManualTrigger
    \/ FaultChange

SpecFaults == InitFaults /\ [][NextFaults]_vars

\* ---- the callbacks on host threads the app is not pinned to -------------
\* The app takes no lock and keeps no "running" flag: every callback enters
\* optimize at once, on the worker thread the host hands it to.  A worker at
\* pc = k is about to execute stage k of its run on the shared object.

\* a trigger (start-up timer, period or manual event) reaches the free
\* worker w: entry of optimize
Dispatch(w) ==
    /\ pc[w] = 0 /\ CanRun
    /\ Adopt(OptimizeStart(Current))
    /\ pc' = [pc EXCEPT ![w] = 1]
    /\ UNCHANGED <<envVars, startupDue, call>>

\* worker w executes the next stage of its run
StageStep(w) ==
    /\ pc[w] # 0
    /\ \E st \in StageResults(Stages[pc[w]], Current, clock) :
          LET last == st.raised \/ pc[w] = Len(Stages)
              exit == IF st.raised THEN "raised" ELSE IF last THEN "returned" ELSE st.run.exit
          IN /\ Adopt([st EXCEPT !.run.exit = exit])
             /\ pc' = [pc EXCEPT ![w] = IF last THEN 0 ELSE @ + 1]
    /\ UNCHANGED <<envVars, startupDue, call>>

InitConcurrent ==
    /\ Init
    /\ solarSensor.today # "absent" /\ priceSensor.today # "absent"
    /\ socSensor # None /\ capSensor # None /\ bufSensor # None

NextConcurrent ==
    \/ \E w \in Workers : Dispatch(w)
    \/ \E w \in Workers : StageStep(w)

SpecConcurrent == InitConcurrent /\ [][NextConcurrent]_vars

(***************************************************************************)
(* The helpers applied on their own: find_cheapest_windows on every short  *)
(* price vector and window size, and the body of get_energy_price_forecast *)
(* on every short combination of daily tables, current index and horizon.  *)
(***************************************************************************)
MaxPrices == 4      \* longest price vector handed to find_cheapest_windows
MaxTable == 3       \* longest daily price table handed to the forecaster
MaxIndex == 6       \* largest current index
MaxHorizon == 4     \* largest incoming horizon

\* ct/kWh values below and above MAX_PRICE_THRESH_CT
CallPrices == {20, 50, 90}

PriceVectors == UNION { [1..n -> CallPrices] : n \in 1..MaxPrices }

\* a daily table of n entries whose totals are base + 1 .. base + n; the
\* entry at position bad of the combined table (0: none), the table starting
\* after position offset, has no "total"
CallTable(n, base, offset, bad) ==
    [i \in 1..n |-> IF offset + i = bad THEN [currency |-> "EUR"]
                    ELSE [total |-> base + i]]

CallFindCheapestWindows ==
    /\ call = NoCall
    /\ \E prices \in PriceVectors, window_size \in 0..(MaxPrices + 1) :
          call' = [fn     |-> "find_cheapest_windows",
                   args   |-> <<prices, window_size>>,
                   result |-> FindCheapestWindows(prices, window_size)]
    /\ UNCHANGED <<envVars, self, hass, files, run, pc, startupDue>>

CallPriceForecast ==
    /\ call = NoCall
    /\ \E n0 \in 0..MaxTable, n1 \in 0..(MaxTable - 1), n2 \in 0..1,
          current_index \in 0..MaxIndex, T \in 0..MaxHorizon :
        \E bad \in 0..(n0 + n1 + n2) :
          LET today    == CallTable(n0, 0, 0, bad)
              tomorrow == CallTable(n1, 10, n0, bad)
              after    == CallTable(n2, 20, n0 + n1, bad)
          IN call' = [fn     |-> "get_energy_price_forecast",
                      args   |-> <<today, tomorrow, after, current_index, T>>,
                      result |-> PriceForecast(today, tomorrow, after, current_index, T)]
    /\ UNCHANGED <<envVars, self, hass, files, run, pc, startupDue>>

\* the solver part of optimize_battery (problem, solve, extraction) on a
\* horizon of up to MaxCallT steps, an initial state of charge between the
\* lower limit and the capacity, and forecasts of solar, consumption and a
\* flat price; the solver returns one of the optimal assignments
MaxCallT == 2

CallSoCs(cap, lower) == { soc \in lower..cap : soc % 2 = 0 }
CallSolar == {0, 2, 4}
CallConsumption == {1, 2}

CallOptimizeBattery ==
    /\ call = NoCall
    /\ \E T \in 1..MaxCallT, cap \in Capacities, lower \in LowerLimits, p \in CallPrices :
         \E SoC_0 \in CallSoCs(cap, lower),
            S_t \in [1..T -> CallSolar], C_t \in [1..T -> CallConsumption] :
            LET P_t  == [t \in 1..T |-> p]
                sol  == Solve(T, SoC_0, S_t, C_t, P_t, cap, lower)
                args == <<T, SoC_0, S_t, C_t, P_t, cap, lower>>
            IN IF sol.status # "Optimal"
               THEN call' = [fn |-> "optimize_battery", args |-> args,
                             result |-> [status |-> sol.status, schedule |-> <<>>]]
               ELSE \E plan \in sol.plans :
                      call' = [fn |-> "optimize_battery", args |-> args,
                               result |-> [status   |-> sol.status,
                                           schedule |-> ScheduleOf(plan, GetNowTime(clock),
                                                                   SoC_0, C_t, S_t)]]
    /\ UNCHANGED <<envVars, self, hass, files, run, pc, startupDue>>

\* the call has returned: the next one can be made
\* wall-clock times of one day around the cutoff hour: 15:30 .. 17:00
CallWalls ==
    { SetMin(ModelDays) * MinutesPerDay + CutoffHour * 60 + d : d \in {-30, 0, 30, 60} }

\* the window document found on disk: none, one stamped with the day
\* before, one stamped with the day of the call
CallDocs ==
    {None} \cup { Some([forecast_date |-> d, windows |-> [h \in WindowHours |-> <<>>]]) :
                      d \in {SetMin(ModelDays) - 1, SetMin(ModelDays)} }

\* identify_cheapest_hours / identify_most_expensive_hours on a loaded document
CallIdentifyWindows ==
    /\ call = NoCall
    /\ \E cheap \in BOOLEAN, doc \in CallDocs, wall \in CallWalls :
          call' = [fn |-> "identify_windows",
                   args |-> <<cheap, doc, wall, ConfiguredT>>,
                   result |-> IdentifyWindows(cheap, doc, wall, ConfiguredT)]
    /\ UNCHANGED <<envVars, self, hass, files, run, pc, startupDue>>

CallReturn ==
    /\ call # NoCall
    /\ call' = NoCall
    /\ UNCHANGED <<envVars, self, hass, files, run, pc, startupDue>>

InitCalls ==
    /\ clock = SetMin(Instants)
    /\ solarSensor = [today |-> "absent", tomorrow |-> "absent", day_after |-> "absent"]
    /\ priceSensor \in PriceInputs
    /\ socSensor = None /\ capSensor = None /\ bufSensor = None
    /\ updates = 0
    /\ InitApp

NextCalls ==
    \/ CallFindCheapestWindows
    \/ CallPriceForecast
    \/ CallOptimizeBattery
    \/ CallIdentifyWindows
    \/ CallReturn

SpecCalls == InitCalls /\ [][NextCalls]_vars

(***************************************************************************)
(* Properties.                                                             *)
(***************************************************************************)
Schedule == self.charging_schedule
Steps == 1..Len(self.charging_schedule)

\* the number a published forecast value stands for
PublishedNumber(v) == IF v[1] = "num" THEN v[2] ELSE 0

\* today's solar points or today's price table are absent or empty
TodayInputMissing ==
    \/ SolarAttributeTable[<<solarSensor.today, DateOf(clock)>>] = <<>>
    \/ PriceAttributeTable[priceSensor.today] = <<>>

\* the step at which the solar forecaster runs out of points at wall-clock
\* time wall, ConfiguredT if it does not
SolarRunOut(wall) ==
    LET day     == DateOf(wall)
        points  == SolarPointsTable[<<solarSensor, day>>]
        missing == { t \in 0..(ConfiguredT - 1) :
                       InterpValue(points, GetNowTime(wall) + STEP_MINUTES * t) = None }
    IN IF SolarAttributeTable[<<solarSensor.today, day>>] = <<>> \/ points = <<>> THEN ConfiguredT
       ELSE IF missing = {} THEN ConfiguredT
       ELSE SetMin(missing)

\* the step at which the price forecaster runs out of entries, ConfiguredT
\* if it does not
PriceRunOut(wall) ==
    LET entries == Len(PriceAttributeTable[priceSensor.today])
                   + Len(PriceAttributeTable[priceSensor.tomorrow])
                   + Len(PriceAttributeTable[priceSensor.day_after])
        missing == { t \in 0..(ConfiguredT - 1) : SlotOf(GetNowTime(wall)) + t >= entries }
    IN IF PriceAttributeTable[priceSensor.today] = <<>> THEN ConfiguredT
       ELSE IF missing = {} THEN ConfiguredT
       ELSE SetMin(missing)

\* C1: when the solve of a run ends with a non-optimal status, the run
\* leaves the stored schedule and every published per-step series as the
\* last successful run produced them.
C1_FailedSolveKeepsSchedule ==
    [][ (/\ UNCHANGED envVars
         /\ Schedule # <<>>
         /\ run'.status \notin {"none", "Optimal"})
        => /\ self'.charging_schedule = self.charging_schedule
           /\ hass'.entities = hass.entities ]_vars

\* C2: a run that starts while today's solar points or today's price table
\* are absent or empty does not invoke the optimizer, publishes nothing and
\* leaves the stored schedule and the published state as they were.
C2_MissingInputAbortsRun ==
    [][ (UNCHANGED envVars /\ TodayInputMissing)
        => /\ ~run'.invoked
           /\ self'.charging_schedule = self.charging_schedule
           /\ hass' = hass ]_vars

\* C3: whatever inputs are present or absent, a run of optimize returns
\* normally: no exception leaves it.
C3_RunReturnsNormally == run.exit # "raised"

\* C4: at most one run is in flight at any time.
C4_SingleFlight == Cardinality({ w \in Workers : pc[w] # 0 }) <= 1

\* C5: at the end of a run that produced a schedule, the consumption, solar
\* and price forecast vectors and the schedule all have length T.
C5_VectorsHaveLengthT ==
    (run.exit = "returned" /\ run.status = "Optimal")
    => /\ Len(self.consumption_forecast) = self.T
       /\ Len(self.solar_forecast) = self.T
       /\ Len(self.price_forecast) = self.T
       /\ Len(self.charging_schedule) = self.T

\* C6: within a run T never grows, and the horizon the optimizer is called
\* with (and solves with) is the minimum of the configured horizon, the step
\* at which the solar forecaster ran out and the step at which the price
\* forecaster ran out.
C6_HorizonIsMinimum ==
    [][ UNCHANGED envVars
        => LET Ts      == run'.Ts
               minimum == Min2(ConfiguredT, Min2(SolarRunOut(clock), PriceRunOut(clock)))
           IN /\ \A i \in 1..(Len(Ts) - 1) : Ts[i + 1] <= Ts[i]
              /\ Len(Ts) = 4 => Ts[4] = minimum
              /\ run'.Tused # None => Val(run'.Tused) = minimum ]_vars

\* a run solved with a horizon that a forecaster had truncated
C6_Witness ==
    /\ run.exit = "returned" /\ run.status = "Optimal"
    /\ Val(run.Tused) < ConfiguredT
    /\ Len(Schedule) = Val(run.Tused)

\* C7: every SoC value of a returned schedule, SoC_0 included, and every
\* published soc entry lies between the lower limit and the capacity.
C7_SocWithinLimits ==
    (run.exit = "returned" /\ run.status = "Optimal")
    => /\ \A t \in Steps :
            /\ Val(self.LOWER_BATTERY_LIMIT) <= Schedule[t].soc
            /\ Schedule[t].soc <= Val(self.BATTERY_CAPACITY)
       /\ \A t \in 1..Len(hass.entities["soc"].forecast) :
            LET soc == PublishedNumber(hass.entities["soc"].forecast[t][2])
            IN Val(self.LOWER_BATTERY_LIMIT) <= soc /\ soc <= Val(self.BATTERY_CAPACITY)

\* C8: in a returned schedule a step with a positive grid export has its
\* full-charge indicator at 1.
C8_ExportOnlyWhenFull ==
    \A t \in Steps : Schedule[t].export > 0 => Schedule[t].full_charge = 1

\* a returned schedule with a step that exports
C8_Witness ==
    /\ run.exit = "returned" /\ run.status = "Optimal"
    /\ \E t \in Steps : Schedule[t].export > 0

\* C9: in a returned schedule the solar charge of a step is at most
\* max(0, solar - consumption) of that step.
C9_SolarChargeWithinSurplus ==
    \A t \in Steps :
        Schedule[t].charge_solar
            <= Max2(0, self.solar_forecast[t] - Schedule[t].consumption)

\* C10: every entry of a returned schedule satisfies the power balance
\*   solar + import + discharge*eff = consumption + charges + export
\* and consecutive entries satisfy the SoC recursion
\*   soc' = soc + (charge_solar + charge_grid)*eff*delta - discharge*delta
\* (both written in the integer scale of the model).
C10_BalanceAndRecursion ==
    \A t \in Steps :
        LET e == Schedule[t]
        IN /\ EffDen * (self.solar_forecast[t] + e.grid_import) + EffNum * e.discharge
                = EffDen * (e.consumption + e.charge_solar + e.charge_grid + e.export)
           /\ t < Len(Schedule)
                => Schedule[t + 1].soc
                     = e.soc + (e.charge_solar + e.charge_grid) * EffNum - e.discharge * EffDen

\* a returned schedule of two steps whose first step charges or discharges
C10_Witness ==
    /\ run.exit = "returned" /\ run.status = "Optimal"
    /\ Len(Schedule) >= 2
    /\ Schedule[2].soc # Schedule[1].soc
    /\ \E t \in Steps : Schedule[t].discharge > 0


\* ---- the persisted consumption history ---------------------------------
\* the recorder changes a stored sample stands for
RecorderSamples ==
    { <<d * MinutesPerDay + c[1], c[2]>> :
        d \in 0..DateOf(SetMax(Instants)), c \in DailyChanges }

\* C17: the history file written by one run is read back by the next run
\* sample for sample: after a run the file holds, in order, the samples the
\* file held before the run that are not older than now - retention days,
\* followed by newly fetched ones, and every stored sample is the ISO text of
\* a change the recorder reported, with its value.
C17_HistoryRoundTrip ==
    [][ UNCHANGED envVars =>
          LET now     == GetNowTime(clock)
              cutoff  == now - HISTORY_DAYS_FALLBACK * MinutesPerDay
              written == files.history
              stored  == files'.history
              keptOld == SelectSeq(written, LAMBDA e : FromIsoFormat(e.last_changed) >= cutoff)
          IN /\ Len(stored) >= Len(keptOld)
             /\ SubSeq(stored, 1, Len(keptOld)) = keptOld
             /\ \A i \in 1..Len(stored) :
                   /\ stored[i].last_changed[1] = "iso"
                   /\ <<FromIsoFormat(stored[i].last_changed), stored[i].state>>
                         \in RecorderSamples
    ]_vars

\* a later run has read the file of the start-up run back, dropped the
\* sample of 23:10 of the day before for its age and added the one of 23:10
C17_Witness ==
    /\ clock > SetMin(Instants) /\ ~startupDue
    /\ files.history # <<>>
    /\ FromIsoFormat(files.history[1].last_changed) = 1420
    /\ \E i \in 1..Len(files.history) :
          FromIsoFormat(files.history[i].last_changed) = MinutesPerDay + 1390

\* ---- the schedule entries ----------------------------------------------
\* C18: the soc field of entry t of a schedule just extracted is the state
\* of charge after step t: the state of charge before the step (the initial
\* one for the first entry, the previous entry's field otherwise) plus the
\* step's charges times the efficiency minus its discharge.
C18_SocIsAfterStep ==
    [][ (UNCHANGED envVars /\ run'.exit = "returned" /\ run'.status = "Optimal") =>
          LET sched == self'.charging_schedule
              SoC_0 == InitialSoC(Val(socSensor), Val(capSensor))
          IN \A t \in 1..Len(sched) :
                sched[t].soc
                  = (IF t = 1 THEN SoC_0 ELSE sched[t - 1].soc)
                    + (sched[t].charge_solar + sched[t].charge_grid) * EffNum
                    - sched[t].discharge * EffDen
    ]_vars

\* C19: the anchor of a run is the wall clock rounded down to a multiple of
\* the configured STEP_MINUTES, and entry t (from 0) of the schedule of the
\* run refers to anchor + t * STEP_MINUTES.
C19_AnchorOnConfiguredStep ==
    [][ (UNCHANGED envVars /\ run'.exit = "returned" /\ run'.status = "Optimal") =>
          LET sched  == self'.charging_schedule
              anchor == (clock \div STEP_MINUTES) * STEP_MINUTES
          IN \A t \in 1..Len(sched) : sched[t].time = anchor + (t - 1) * STEP_MINUTES
    ]_vars

\* C20: the maximum possible discharge of step t is min(rate limit, SoC_t),
\* not below 0, when the state of charge of the next step is equal to or
\* higher than SoC_t or the step exports or discharges, and 0 otherwise
\* (the state of charge falls with neither export nor discharge).
C20_MaxDischargeAsStated ==
    (run.exit = "returned" /\ run.status = "Optimal") =>
        \A t \in 1..(Len(Schedule) - 1) :
            LET e == Schedule[t]
                stated == IF \/ Schedule[t + 1].soc >= e.soc
                             \/ e.export > 0
                             \/ e.discharge > 0
                          THEN Max2(0, Min2(DISCHARGE_RATE_MAX * SocScale, e.soc))
                          ELSE 0
            IN self.max_discharge_possible[t] = stated


\* ---- the persisted window assignments ----------------------------------
\* the stored document of one kind changes in this step only as a save of a
\* run past the cutoff, over no document or one stamped with an earlier day,
\* and the new document is stamped with the day of the run
SavedOnceADay(before, after) ==
    LET now == GetNowTime(clock)
    IN after # before =>
         /\ UNCHANGED envVars
         /\ now % MinutesPerDay > CutoffHour * 60
         /\ before = None \/ Val(before).forecast_date < DateOf(now)
         /\ after # None /\ Val(after).forecast_date = DateOf(now)

\* C11: a window assignment (cheapest or most expensive) is persisted at
\* most once per calendar day, and only by a run past the 16:00 cutoff: every
\* change of a stored document replaces no document or one of an earlier day
\* by one stamped today, in a run whose local time is after 16:00, and no
\* stored document is stamped later than today.
C11_PersistedOncePerDay ==
    [][ /\ SavedOnceADay(files.cheap_windows, files'.cheap_windows)
        /\ SavedOnceADay(files.expensive_windows, files'.expensive_windows)
        /\ files.cheap_windows # None
              => Val(files.cheap_windows).forecast_date <= DateOf(clock)
        /\ files.expensive_windows # None
              => Val(files.expensive_windows).forecast_date <= DateOf(clock)
    ]_vars

\* the document saved today no longer matches the price tables, and the last
\* run read the tables as they are now: it ran after they changed and did
\* not save again
C11_Witness ==
    /\ files.cheap_windows # None
    /\ Val(files.cheap_windows).forecast_date = DateOf(clock)
    /\ priceSensor.today # "absent"
    /\ Val(files.cheap_windows).windows
          # ComputedWindowsTable[<<TRUE, priceSensor, DateOf(clock)>>]
    /\ run.exit = "returned"
    /\ self.price_forecast # <<>>
    /\ self.price_forecast[1]
          = PriceCt(PriceValue(priceSensor.today, SlotOf(GetNowTime(clock))))

\* C12: once the cheapest windows are persisted on a day, every later run of
\* that day publishes, for each window length, the same cheapest-window
\* membership for every absolute timestamp as the runs before it: a
\* timestamp published by two runs of the day has the same on/off value.
C12_SameMembershipAfterPersist ==
    [][ ( /\ UNCHANGED envVars
          /\ run'.exit = "returned"
          /\ files.cheap_windows # None
          /\ Val(files.cheap_windows).forecast_date = DateOf(GetNowTime(clock))
          /\ files'.cheap_windows = files.cheap_windows )
        => \A h \in WindowHours :
             LET old == hass.within_cheapest[h].forecast
                 new == hass'.within_cheapest[h].forecast
             IN \A i \in 1..Len(old), j \in 1..Len(new) :
                   old[i][1] = new[j][1] => old[i][2] = new[j][2]
    ]_vars

\* C13: a run that does not persist uses the stored assignment only when it
\* is stamped with the current date; otherwise the flags it sets are those
\* of the freshly computed windows.
C13_StaleWindowsNotReused ==
    [][ ( /\ UNCHANGED envVars
          /\ run'.exit = "returned"
          /\ files'.cheap_windows = files.cheap_windows )
        => LET now      == GetNowTime(clock)
               today    == DateOf(now)
               doc      == files.cheap_windows
               computed == ComputedWindowsTable[<<TRUE, priceSensor, today>>]
               used     == IF doc # None /\ Val(doc).forecast_date = today
                           THEN Val(doc).windows ELSE computed
           IN \A h \in WindowHours :
                 self'.within_cheapest[h] = WindowFlags(used[h], now, self'.T)
    ]_vars


\* ---- find_cheapest_windows on its own ----------------------------------
\* the start indices (from 0) of the windows of window_size steps of prices
\* with no step above the threshold
EligibleStarts(prices, window_size) ==
    { i \in 0..(Len(prices) - window_size) :
        \A k \in (i + 1)..(i + window_size) : prices[k] <= MAX_PRICE_THRESH_CT }

WindowTotal(prices, i, window_size) ==
    SumSeq([k \in 1..window_size |-> prices[i + k]])

\* C14: when at least one window of w steps has no step above the
\* threshold, find_cheapest_windows returns the w contiguous indices of the
\* window with the smallest total among those windows, the lowest start
\* among windows with equal totals (so 0..w-1 when all prices are equal).
C14_CheapestEligibleWindow ==
    call.fn = "find_cheapest_windows" =>
        LET prices   == call.args[1]
            w        == call.args[2]
            eligible == EligibleStarts(prices, w)
        IN (w >= 1 /\ w <= Len(prices) /\ eligible # {}) =>
              \E s \in eligible :
                 /\ call.result = [k \in 1..w |-> s + k - 1]
                 /\ \A i \in eligible :
                       /\ WindowTotal(prices, s, w) <= WindowTotal(prices, i, w)
                       /\ WindowTotal(prices, s, w) = WindowTotal(prices, i, w) => s <= i

\* a call with a window above the threshold at the start and two eligible
\* windows of the same smallest total
C14_Witness ==
    /\ call.fn = "find_cheapest_windows"
    /\ call.args[2] >= 1 /\ call.args[2] < Len(call.args[1])
    /\ LET prices   == call.args[1]
           w        == call.args[2]
           eligible == EligibleStarts(prices, w)
       IN /\ 0 \notin eligible
          /\ \E i, j \in eligible :
                /\ i < j
                /\ WindowTotal(prices, i, w) = WindowTotal(prices, j, w)
                /\ \A m \in eligible : WindowTotal(prices, i, w) <= WindowTotal(prices, m, w)
                /\ call.result[1] = i

\* C15: when every window of w steps contains a step above the threshold,
\* find_cheapest_windows returns the empty list.
C15_EmptyWhenAllAboveThreshold ==
    call.fn = "find_cheapest_windows" =>
        LET prices == call.args[1]
            w      == call.args[2]
        IN (w >= 1 /\ w <= Len(prices) /\ EligibleStarts(prices, w) = {}) =>
              call.result = <<>>

\* ---- get_energy_price_forecast on its own ------------------------------
\* C16: for a combined table of N entries, current index c and incoming
\* horizon H the forecaster produces exactly min(H, max(0, N - c)) prices,
\* price t (from 0) being entry c + t of the combined table in ct, and sets
\* the horizon to that number.
C16_PricesFromCurrentIndex ==
    ( /\ call.fn = "get_energy_price_forecast"
      /\ call.args[1] # <<>>
      /\ \A d \in 1..3 : \A i \in 1..Len(call.args[d]) : HasTotal(call.args[d][i]) ) =>
        LET combined == call.args[1] \o call.args[2] \o call.args[3]
            N        == Len(combined)
            c        == call.args[4]
            H        == call.args[5]
            count    == Min2(H, Max2(0, N - c))
        IN /\ Len(call.result.price_forecast) = count
           /\ \A t \in 0..(count - 1) :
                 call.result.price_forecast[t + 1] = PriceCt(combined[c + t + 1].total)
           /\ call.result.T = count

\* the table ends inside the horizon: fewer prices than the incoming horizon
C16_Witness ==
    /\ call.fn = "get_energy_price_forecast"
    /\ call.args[1] # <<>> /\ call.args[2] # <<>>
    /\ \A d \in 1..3 : \A i \in 1..Len(call.args[d]) : HasTotal(call.args[d][i])
    /\ call.args[4] > 0
    /\ call.result.T > 0 /\ call.result.T < call.args[5]
    /\ Len(call.result.price_forecast) = call.result.T


\* ---- the horizon at the start of a run ---------------------------------
\* C28: every run starts with T equal to the configured horizon
\* (TIME_HORIZON * 60 / STEP_MINUTES), whatever the runs before it left in T.
C28_RunStartsAtConfiguredHorizon ==
    [][ UNCHANGED envVars => run'.Ts[1] = ConfiguredT ]_vars

\* the run before published a truncated horizon; the current run, which
\* raised before publishing, started at the configured horizon
C28_Witness ==
    /\ run.exit = "raised"
    /\ hass.forecast_horizon.steps > 0
    /\ hass.forecast_horizon.steps < ConfiguredT
    /\ run.Ts[1] = ConfiguredT
    /\ self.T = ConfiguredT


\* ---- the membership flags ----------------------------------------------
\* the flags of one kind agree with the window assignment in use: the stored
\* document after the stage when there is one, else the computed windows
FlagsMatchWindows(cheap, doc, flags, T) ==
    LET now  == GetNowTime(clock)
        used == IF doc # None THEN Val(doc).windows
                ELSE ComputedWindowsTable[<<cheap, priceSensor, DateOf(now)>>]
    IN \A h \in WindowHours :
          /\ Len(flags[h]) = T
          /\ \A t \in 1..T :
                flags[h][t] = (\E j \in 1..Len(used[h]) :
                                 used[h][j] = now + (t - 1) * STEP_MINUTES)

\* C27: after identify_cheapest_hours and identify_most_expensive_hours,
\* for every window length h in 1..8 and every step t in [0, T), the flag at
\* index t is true exactly when the time of step t, anchor + t * STEP_MINUTES,
\* is a timestamp of the window assignment in use for h, and every flag
\* series has length T.
C27_FlagsMatchWindowTimes ==
    [][ (UNCHANGED envVars /\ run'.exit = "returned") =>
          /\ FlagsMatchWindows(TRUE, files'.cheap_windows, self'.within_cheapest, self'.T)
          /\ FlagsMatchWindows(FALSE, files'.expensive_windows,
                               self'.within_most_expensive, self'.T)
    ]_vars


\* ---- the charge session ------------------------------------------------
\* the number of leading entries of the schedule with a positive grid charge
LeadingGridSteps ==
    LET stops == { t \in Steps : Schedule[t].charge_grid = 0 }
    IN IF stops = {} THEN Len(Schedule) ELSE SetMin(stops) - 1

\* C21: after every run the published charge session is the total grid
\* charge, and its duration the number of steps, of the maximal run of
\* consecutive steps with positive grid charge that starts at step 0 of the
\* current schedule (0 and 0 when step 0 has no grid charge), whatever
\* session earlier runs published.
C21_SessionFromCurrentSchedule ==
    run.exit = "returned" =>
        /\ SessionReading(hass.charge_grid_session)
              = SumSeq([t \in 1..LeadingGridSteps |-> Schedule[t].charge_grid])
        /\ hass.charge_grid_session.session_duration = LeadingGridSteps


\* ---- the full-charge indicator -----------------------------------------
\* the state of charge at the end of the step of a schedule entry
SocAfter(e) == e.soc + (e.charge_solar + e.charge_grid) * EffNum - e.discharge * EffDen

\* C29: in a returned schedule a step whose full-charge indicator is 1 ends
\* with the battery full, so a step with a positive export ends with the
\* battery full, and the soc value of the entry of such a step is the state
\* of charge the indicator is based on (the one at the end of the step).
C29_FullChargeAndItsSoc ==
    (call.fn = "optimize_battery" /\ call.result.status = "Optimal") =>
        \A t \in 1..Len(call.result.schedule) :
            LET e   == call.result.schedule[t]
                cap == call.args[6]
            IN /\ e.full_charge = 1 => SocAfter(e) = cap
               /\ e.export > 0 => SocAfter(e) = cap
               /\ e.full_charge = 1 => e.soc = SocAfter(e)

\* ---- feasibility of the constraint set --------------------------------
\* C25: with T >= 1, forecasts that are not negative, an initial state of
\* charge between the lower limit and the capacity and positive rate limits,
\* the constraint set built by optimize_battery is feasible: the solver
\* finds a schedule.
C25_ConstraintsFeasible ==
    call.fn = "optimize_battery" =>
        LET T     == call.args[1]
            SoC_0 == call.args[2]
            S_t   == call.args[3]
            C_t   == call.args[4]
            cap   == call.args[6]
            lower == call.args[7]
        IN ( /\ T >= 1
             /\ \A t \in 1..T : S_t[t] >= 0 /\ C_t[t] >= 0
             /\ lower <= SoC_0 /\ SoC_0 <= cap
             /\ CHARGE_RATE_MAX > 0 /\ DISCHARGE_RATE_MAX > 0 )
           => call.result.status = "Optimal"


\* ---- a malformed data point --------------------------------------------
\* C23: a single malformed data point, here a price entry without a usable
\* total, is discarded on its own: the price forecaster does not raise, so
\* the run goes on with the remaining points.
C23_BadPointDoesNotAbort ==
    call.fn = "get_energy_price_forecast" => ~call.result.raised


\* ---- prices and calendar steps -----------------------------------------
\* the steps of a day in the calls: 24 * 60 / STEP_MINUTES, scaled to the
\* longest table of the calls
CallSlotsPerDay == MaxTable

\* C26: whatever tables are present and however long they are (up to the
\* steps of a day), the price of step t is the tariff of the calendar step
\* current_index + t: entry (current_index + t) mod slotsPerDay of the table
\* of day (current_index + t) div slotsPerDay; in particular an entry of the
\* day after tomorrow is never the price of a step of tomorrow.
C26_PriceOfCalendarStep ==
    ( /\ call.fn = "get_energy_price_forecast"
      /\ call.args[1] # <<>>
      /\ call.args[4] < CallSlotsPerDay
      /\ \A d \in 1..3 : \A i \in 1..Len(call.args[d]) : HasTotal(call.args[d][i]) ) =>
        \A t \in 1..Len(call.result.price_forecast) :
            LET step == call.args[4] + t - 1
                day  == step \div CallSlotsPerDay
                slot == step % CallSlotsPerDay
            IN /\ day <= 2
               /\ slot + 1 <= Len(call.args[day + 1])
               /\ call.result.price_forecast[t] = PriceCt(call.args[day + 1][slot + 1].total)


\* ---- persisting at the cutoff hour -------------------------------------
\* C30: in a run whose local hour is 16 or later, with the persisted
\* assignment absent or stamped with another date, the windows computed in
\* this run are persisted with today's date.
C30_PersistedFromSixteen ==
    call.fn = "identify_windows" =>
        LET doc   == call.args[2]
            now   == GetNowTime(call.args[3])
            today == DateOf(now)
        IN ( /\ HourOf(now) >= CutoffHour
             /\ (doc = None \/ Val(doc).forecast_date # today) ) =>
               call.result.doc =
                   Some([forecast_date |-> today,
                         windows |-> ComputedWindows(call.args[1], priceSensor, today)])


\* ---- the vectors the optimizer reads -----------------------------------
\* get_solar_production_forecast at wall reaches its assignment of
\* self.solar_forecast: today's attribute and the parsed points are not empty
SolarProduced(wall) ==
    /\ SolarAttributeTable[<<solarSensor.today, DateOf(wall)>>] # <<>>
    /\ SolarPointsTable[<<solarSensor, DateOf(wall)>>] # <<>>

\* C22: every forecast vector the optimizer reads was produced in that same
\* run: a run in which the solver was invoked is a run whose solar
\* forecaster assigned its vector; a forecaster that fails on missing input
\* does not leave the vector of an earlier run to the optimizer.
C22_VectorsFromThisRun ==
    [][ (UNCHANGED envVars /\ run'.Tused # None) => SolarProduced(clock) ]_vars


\* ---- I/O errors ----------------------------------------------------------
\* the files as a run without faults would have to find them to behave like
\* a run under the faults of fs: an unreadable file is an absent file
SeenThroughFaults(fs) ==
    [history           |-> IF "load_history" \in fs.faults THEN <<>> ELSE fs.history,
     cheap_windows     |-> IF "load_windows" \in fs.faults THEN None ELSE fs.cheap_windows,
     expensive_windows |-> IF "load_windows" \in fs.faults THEN None
                           ELSE fs.expensive_windows,
     faults            |-> {}]

\* C24: an I/O error while loading or saving the history or a window
\* document never ends the run.  A run under faults ends as a run without
\* faults ends that finds the unreadable files absent: same exit, same
\* object state (history taken as empty, windows computed in this run), same
\* published entities; a failed save changes none of them.
C24_IoErrorsDoNotEndTheRun ==
    [][ (UNCHANGED envVars /\ files'.faults = files.faults) =>
           \E st \in Optimize([Current EXCEPT !.files = SeenThroughFaults(files)], clock) :
               /\ self' = st.self
               /\ hass' = st.hass
               /\ run' = st.run ]_vars

\* a run has returned and published its forecast while neither the history
\* nor the window documents could be saved: the files are still absent
C24_Witness ==
    /\ run.exit = "returned"
    /\ files.faults = {"save_history", "save_windows"}
    /\ files.history = <<>> /\ files.cheap_windows = None
    /\ self.consumption_forecast # <<>>
    /\ \E h \in WindowHours : \E k \in 1..Len(self.within_cheapest[h]) :
          self.within_cheapest[h][k]
    /\ hass.charge_grid_session.state[1] # "none"


=============================================================================
